---- MODULE Spec2Model ----
(***************************************************************************)
(* A model of luster's coroutine library (src/stdlib/coroutine.rs), its    *)
(* string library (src/stdlib/string.rs), the integer paths of             *)
(* Value::floor_divide and Value::modulo (src/value.rs) and the native     *)
(* callback test (tests/callback.rs).                                      *)
(*                                                                         *)
(* Thread (its states, Thread::resume, Thread::new_coroutine, the handling *)
(* of CallbackResult::Yield) and the Sequence combinators are not among    *)
(* the source files; they are modelled from the specification's section    *)
(* 4.3 / 4.4 and marked as such where they are defined.                    *)
(***************************************************************************)
EXTENDS Integers, Sequences, FiniteSets, TLC

VARIABLES
    state,       \* thread id -> "Absent" | "Suspended" | "Running" | "Normal" | "Dead"
    chain,       \* the resume chain: main thread first, executing thread last
    ret,         \* what the executing thread got from its latest callback call
    last,        \* the latest operation: its name, target thread and values
    opA, opB,    \* operands of the arithmetic operation
    opName,      \* "none" | "floor_divide" | "modulo"
    opRes,       \* outcome of the arithmetic operation
    pc,          \* position in the sequence chain of tests/callback.rs
    cbArgs,      \* arguments the script passes to the native callback
    globals,     \* names set in lc.globals
    closure,     \* the compiled closure, once compiled
    locals,      \* the script's locals after the call
    runResult,   \* what run_function returned
    outcome      \* result of the sequence chain

vars == <<state, chain, ret, last, opA, opB, opName, opRes,
          pc, cbArgs, globals, closure, locals, runResult, outcome>>

coVars == <<state, chain, ret, last>>
arVars == <<opA, opB, opName, opRes>>
cbVars == <<pc, cbArgs, globals, closure, locals, runResult, outcome>>

\* ------------------------------------------------------------------ bounds
MaxThreads == 2      \* coroutines that can be created (besides the main thread)
MaxVals == 2         \* longest list of values passed to resume / yield / return
IntBits == 4         \* width of the scaled-down two's-complement Integer

MainThread == 0
ThreadIds == 0..MaxThreads

\* ------------------------------------------------------------------ values
Nil == [tag |-> "Nil", v |-> 0]
Boolean(b) == [tag |-> "Boolean", v |-> b]
Integer(n) == [tag |-> "Integer", v |-> n]
String(s) == [tag |-> "String", v |-> s]
Table(n) == [tag |-> "Table", v |-> n]
Function(n) == [tag |-> "Function", v |-> n]
Thread(t) == [tag |-> "Thread", v |-> t]

\* Value::type_name
type_name(value) ==
    CASE value.tag = "Nil" -> "nil"
      [] value.tag = "Boolean" -> "boolean"
      [] value.tag = "Integer" -> "number"
      [] value.tag = "String" -> "string"
      [] value.tag = "Table" -> "table"
      [] value.tag = "Function" -> "function"
      [] OTHER -> "thread"

\* PartialEq for Value (no Number values are modelled)
ValueEq(a, b) == a.tag = b.tag /\ a.v = b.v

\* ------------------------------------------------------------------ errors
NoErr == [kind |-> "None", expected |-> "", found |-> "", msg |-> ""]
TypeError(expected, found) ==
    [kind |-> "TypeError", expected |-> expected, found |-> found, msg |-> ""]
RuntimeError(msg) ==
    [kind |-> "RuntimeError", expected |-> "", found |-> "", msg |-> msg]
BadThreadMode == [kind |-> "BadThreadMode", expected |-> "", found |-> "", msg |-> ""]
BadYield == [kind |-> "BadYield", expected |-> "", found |-> "", msg |-> ""]

\* Error::to_value: the error as a plain Value
ToValue(err) == [tag |-> "Error", v |-> err]

\* ------------------------------------------------------------------ callback results
Return(vals) == [kind |-> "Return", vals |-> vals, err |-> NoErr]
Yield(vals) == [kind |-> "Yield", vals |-> vals, err |-> NoErr]
Err(err) == [kind |-> "Err", vals |-> <<>>, err |-> err]
NoRet == [kind |-> "None", vals |-> <<>>, err |-> NoErr]
Resumed(vals) == [kind |-> "Resumed", vals |-> vals, err |-> NoErr]

\* args.get(0).cloned().unwrap_or(Value::Nil)
Arg0(args) == IF Len(args) > 0 THEN args[1] ELSE Nil


\* ------------------------------------------------------------------ strings
SuspendedStr == <<"s", "u", "s", "p", "e", "n", "d", "e", "d">>
RunningStr == <<"r", "u", "n", "n", "i", "n", "g">>
DeadStr == <<"d", "e", "a", "d">>
NormalStr == <<"n", "o", "r", "m", "a", "l">>

DigitChars == <<"0", "1", "2", "3", "4", "5", "6", "7", "8", "9">>

RECURSIVE Decimal(_)
\* String::concat(mc, &[Value::Integer(a)]): the decimal rendering of a
Decimal(a) ==
    IF a < 0 THEN <<"-">> \o Decimal(-a)
    ELSE IF a < 10 THEN <<DigitChars[a + 1]>>
    ELSE Decimal(a \div 10) \o <<DigitChars[(a % 10) + 1]>>

\* Value::to_string: [some, s]; Integers are rendered, Strings pass through
to_string(value) ==
    CASE value.tag = "Integer" -> [some |-> TRUE, s |-> Decimal(value.v)]
      [] value.tag = "String" -> [some |-> TRUE, s |-> value.v]
      [] OTHER -> [some |-> FALSE, s |-> <<>>]

\* ------------------------------------------------------------------ Thread
\* Thread::is_suspended
IsSuspended(t) == state[t] = "Suspended"

\* Thread::is_finished
IsFinished(t) == state[t] = "Dead"

CanResumeAnyLive(t) == state[t] \in {"Suspended", "Running", "Normal"}

\* Thread::resume is valid only from Suspended
CanResume(t) == state[t] = "Suspended"

\* Thread::new_coroutine: a fresh thread, Suspended, body not yet started
NewCoroutine(st, t) == [st EXCEPT ![t] = "Suspended"]

\* ------------------------------------------------------------------ coroutine library
\* coroutine.create, up to the call of Thread::new_coroutine
CreateCallback(args) ==
    IF Arg0(args).tag = "Function"
    THEN [ok |-> TRUE, function |-> Arg0(args), err |-> NoErr]
    ELSE [ok |-> FALSE, function |-> Nil,
          err |-> TypeError("function", type_name(Arg0(args)))]

\* coroutine.resume, up to the call of Thread::resume: the thread and args[1..]
ResumeCallback(args) ==
    IF Arg0(args).tag = "Thread"
    THEN [ok |-> TRUE, thread |-> Arg0(args).v,
          args |-> SubSeq(args, 2, Len(args)), err |-> NoErr]
    ELSE [ok |-> FALSE, thread |-> -1, args |-> <<>>,
          err |-> TypeError("thread", type_name(Arg0(args)))]

Ok(vals) == [ok |-> TRUE, vals |-> vals, err |-> NoErr]
Failed(err) == [ok |-> FALSE, vals |-> <<>>, err |-> err]

ResumeThenAppendsMarker(res) ==
    IF res.ok THEN Return(res.vals \o <<Boolean(TRUE)>>)
    ELSE Return(<<Boolean(FALSE), ToValue(res.err)>>)

ResumeThenRaises(res) ==
    IF res.ok THEN Return(<<Boolean(TRUE)>> \o res.vals)
    ELSE Err(res.err)

ResumeThenBareError(res) ==
    IF res.ok THEN Return(<<Boolean(TRUE)>> \o res.vals)
    ELSE Return(<<ToValue(res.err)>>)

\* coroutine.resume, the .then step: the outcome of Thread::resume as a result list
ResumeThen(res) ==
    IF res.ok THEN Return(<<Boolean(TRUE)>> \o res.vals)
    ELSE Return(<<Boolean(FALSE), ToValue(res.err)>>)

StatusCallbackNormal(self_thread, args) ==
    IF Arg0(args).tag # "Thread"
    THEN Err(TypeError("thread", type_name(Arg0(args))))
    ELSE LET thread == Arg0(args).v IN
         Return(<<String(IF IsSuspended(thread) THEN SuspendedStr
                         ELSE IF thread = self_thread THEN RunningStr
                         ELSE IF IsFinished(thread) THEN DeadStr
                         ELSE NormalStr)>>)

\* coroutine.status
StatusCallback(self_thread, args) ==
    IF Arg0(args).tag # "Thread"
    THEN Err(TypeError("thread", type_name(Arg0(args))))
    ELSE LET thread == Arg0(args).v IN
         Return(<<String(IF IsSuspended(thread) THEN SuspendedStr
                         ELSE IF thread = self_thread THEN RunningStr
                         ELSE IF IsFinished(thread) THEN DeadStr
                         ELSE RunningStr)>>)

YieldCallbackReturns(args) == Return(args)

\* coroutine.yield
YieldCallback(args) == Yield(args)

\* ------------------------------------------------------------------ string library
BadArgumentToLen == "Bad argument to len"

\* string.len
LenCallback(args) ==
    LET s == to_string(Arg0(args)) IN
    IF s.some THEN Return(<<Integer(Len(s.s))>>)
    ELSE Err(RuntimeError(BadArgumentToLen))


\* ------------------------------------------------------------------ inputs
SeqsUpTo(S, n) == UNION {[1..k -> S] : k \in 0..n}

PayloadVals == {Integer(1), Integer(2)}
PayLists == SeqsUpTo(PayloadVals, MaxVals)

LiveThreads == {t \in ThreadIds : state[t] # "Absent"}

\* first arguments a script can pass: one value of every type
FirstArgs ==
    {Nil, Boolean(TRUE), Integer(1), String(<<"a", "b">>), Table(1), Function(1)}
        \cup {Thread(t) : t \in LiveThreads}

\* argument lists of create / status / len: nothing, or one value
OneArgLists == {<<>>} \cup {<<f>> : f \in FirstArgs}

\* argument lists of resume: nothing, one value, or a thread and a payload
ResumeArgLists ==
    OneArgLists \cup {<<Thread(t)>> \o p : t \in LiveThreads, p \in PayLists}

BodyErrors == {RuntimeError("boom")}

\* ------------------------------------------------------------------ scheduler
cur == chain[Len(chain)]

\* the record of an operation: who called it at which depth of the chain, its
\* target thread (-1: none), the target's mode before it, and its values
Op(op, thread, vals) ==
    [op |-> op, caller |-> cur, thread |-> thread, vals |-> vals, depth |-> Len(chain),
     mode |-> IF thread \in ThreadIds THEN state[thread] ELSE "None"]

TargetOf(args) == IF Arg0(args).tag = "Thread" THEN Arg0(args).v ELSE -1

\* a callback error has to unwind the calling body before anything else runs
Ready == ret.kind # "Err"

InitCo ==
    /\ state = [t \in ThreadIds |-> IF t = MainThread THEN "Running" ELSE "Absent"]
    /\ chain = <<MainThread>>
    /\ ret = NoRet
    /\ last = [op |-> "init", caller |-> MainThread, thread |-> -1, vals |-> <<>>,
               depth |-> 1, mode |-> "None"]

\* the executing thread leaves the chain in mode `mode`; its resumer runs again
\* and its pending resume call completes with `res`
BackToResumer(mode, res) ==
    /\ state' = [state EXCEPT ![cur] = mode, ![chain[Len(chain) - 1]] = "Running"]
    /\ chain' = SubSeq(chain, 1, Len(chain) - 1)
    /\ ret' = ResumeThen(res)

\* the executing thread calls coroutine.create(args)
Create ==
    \E args \in OneArgLists :
        LET r == CreateCallback(args)
            free == {t \in ThreadIds : state[t] = "Absent"}
        IN /\ Ready
           /\ IF r.ok
              THEN /\ free # {}
                   /\ LET t == CHOOSE x \in free : \A y \in free : x <= y IN
                      /\ state' = NewCoroutine(state, t)
                      /\ ret' = Return(<<Thread(t)>>)
                      /\ last' = Op("create", t, args)
              ELSE /\ ret' = Err(r.err)
                   /\ last' = Op("create", -1, args)
                   /\ state' = state
           /\ UNCHANGED <<chain, arVars, cbVars>>

\* the executing thread calls coroutine.resume(args)
Resume ==
    \E args \in ResumeArgLists :
        LET r == ResumeCallback(args) IN
        /\ Ready
        /\ last' = Op("resume", r.thread, args)
        /\ IF ~r.ok
           THEN /\ ret' = Err(r.err)
                /\ UNCHANGED <<state, chain>>
           ELSE IF CanResume(r.thread)
           THEN /\ state' = [state EXCEPT ![cur] = "Normal", ![r.thread] = "Running"]
                /\ chain' = Append(chain, r.thread)
                /\ ret' = Resumed(r.args)
           ELSE /\ ret' = ResumeThen(Failed(BadThreadMode))
                /\ UNCHANGED <<state, chain>>
        /\ UNCHANGED <<arVars, cbVars>>

\* the executing thread calls coroutine.yield(vals)
YieldStep ==
    \E vals \in PayLists :
        LET r == YieldCallback(vals) IN
        /\ Ready
        /\ last' = Op("yield", -1, vals)
        /\ IF r.kind = "Yield"
           THEN IF Len(chain) > 1
                THEN BackToResumer("Suspended", Ok(r.vals))
                ELSE /\ ret' = Err(BadYield)
                     /\ UNCHANGED <<state, chain>>
           ELSE /\ ret' = r
                /\ UNCHANGED <<state, chain>>
        /\ UNCHANGED <<arVars, cbVars>>

\* the body of the executing thread returns vals; what the function run on the
\* main thread returns goes to the host, which runs the next one
ReturnStep ==
    \E vals \in PayLists :
        /\ Ready
        /\ last' = Op("return", -1, vals)
        /\ UNCHANGED <<arVars, cbVars>>
        /\ IF Len(chain) > 1
           THEN BackToResumer("Dead", Ok(vals))
           ELSE /\ ret' = NoRet
                /\ UNCHANGED <<state, chain>>

\* an error leaves the body of the executing thread; from the main thread it
\* goes to the host, which runs the next function
Unwind(err) ==
    /\ last' = Op("error", -1, <<ToValue(err)>>)
    /\ UNCHANGED <<arVars, cbVars>>
    /\ IF Len(chain) > 1
       THEN BackToResumer("Dead", Failed(err))
       ELSE /\ ret' = NoRet
            /\ UNCHANGED <<state, chain>>

\* the body of the executing thread raises an error of its own
RaiseStep == \E err \in BodyErrors : Ready /\ Unwind(err)

\* the error a callback reported is raised in the body that called it
Propagate == ret.kind = "Err" /\ Unwind(ret.err)

\* the executing thread calls coroutine.status(args)
Status ==
    \E args \in OneArgLists :
        /\ Ready
        /\ ret' = StatusCallback(cur, args)
        /\ last' = Op("status", TargetOf(args), args)
        /\ UNCHANGED <<state, chain, arVars, cbVars>>

\* the executing thread calls string.len(args)
LenStep ==
    \E args \in OneArgLists :
        /\ Ready
        /\ ret' = LenCallback(args)
        /\ last' = Op("len", -1, args)
        /\ UNCHANGED <<state, chain, arVars, cbVars>>

IdleAr == opA = 0 /\ opB = 0 /\ opName = "none" /\ opRes = [kind |-> "Idle", v |-> 0]
IdleCb ==
    /\ pc = "idle" /\ cbArgs = <<>> /\ globals = {} /\ closure = "none"
    /\ locals = <<>> /\ runResult = <<>> /\ outcome = "none"

Init == InitCo /\ IdleAr /\ IdleCb

Next ==
    \/ Create
    \/ Resume
    \/ YieldStep
    \/ ReturnStep
    \/ RaiseStep
    \/ Propagate
    \/ Status
    \/ LenStep

Spec == Init /\ [][Next]_vars


\* ------------------------------------------------------------------ claims
True == Boolean(TRUE)
False == Boolean(FALSE)
StatusOf(t) == StatusCallback(cur, <<Thread(t)>>)

\* C1: resuming a Suspended thread T makes T the executing thread; when T's
\* body then yields vs, T is Suspended, its resumer is executing again and
\* has received (true, vs...) and status(T) is "suspended"; when the body
\* returns rs, T is Dead, the resumer has received (true, rs...) and
\* status(T) is "dead".
C1_ResumeDeliversYieldAndReturn ==
    /\ (last.op = "resume" /\ last.mode = "Suspended") =>
            /\ cur = last.thread
            /\ state[last.thread] = "Running"
            /\ Len(chain) = last.depth + 1
    /\ (last.op = "yield" /\ last.depth > 1) =>
            /\ state[last.caller] = "Suspended"
            /\ Len(chain) = last.depth - 1
            /\ ret = Return(<<True>> \o last.vals)
            /\ StatusOf(last.caller) = Return(<<String(SuspendedStr)>>)
    /\ (last.op = "return" /\ last.depth > 1) =>
            /\ state[last.caller] = "Dead"
            /\ Len(chain) = last.depth - 1
            /\ ret = Return(<<True>> \o last.vals)
            /\ StatusOf(last.caller) = Return(<<String(DeadStr)>>)

\* a coroutine has yielded (1, 2) to its resumer
C1_Witness ==
    /\ last.op = "yield" /\ last.depth > 1
    /\ last.vals = <<Integer(1), Integer(2)>>
    /\ ret.vals = <<True, Integer(1), Integer(2)>>

\* C2: when an error leaves the body of a resumed thread, the thread is Dead,
\* its resumer is executing again, and the resume call has returned exactly
\* (false, error-value): nothing is raised in the resumer.
C2_ErrorBecomesFalsePair ==
    (last.op = "error" /\ last.depth > 1) =>
        /\ state[last.caller] = "Dead"
        /\ Len(chain) = last.depth - 1
        /\ state[cur] = "Running"
        /\ ret = Return(<<False>> \o last.vals)
        /\ Len(ret.vals) = 2
        /\ ret.vals[2].tag = "Error"
        /\ Ready

\* the body of a coroutine raised an error and its resumer got (false, error)
C2_Witness ==
    /\ last.op = "error" /\ last.depth > 1
    /\ ret.kind = "Return" /\ ret.vals[1] = False

\* C3: resume of a thread that is not Suspended returns (false, error-value),
\* runs nothing of the thread and changes the state of no thread; a Dead
\* thread stays Dead.
C3_ResumeOfNonSuspendedRefused ==
    [][/\ (last'.op = "resume" /\ last'.thread \in ThreadIds
             /\ state[last'.thread] # "Suspended") =>
            /\ state' = state
            /\ chain' = chain
            /\ ret'.kind = "Return"
            /\ Len(ret'.vals) = 2
            /\ ret'.vals[1] = False
            /\ ret'.vals[2].tag = "Error"
       /\ \A t \in ThreadIds : state[t] = "Dead" => state'[t] = "Dead"]_vars

\* a Dead thread was resumed and the caller got (false, error)
C3_Witness ==
    /\ last.op = "resume" /\ last.mode = "Dead"
    /\ state[last.thread] = "Dead"
    /\ ret.vals[1] = False

\* C4: exactly one thread is executing, it is the last of the resume chain;
\* the others of the chain are Normal, every thread outside it is Suspended,
\* Dead or not created, and no thread is in the chain twice.
C4_OneExecutingThread ==
    /\ Len(chain) >= 1
    /\ chain[1] = MainThread
    /\ Cardinality({t \in ThreadIds : state[t] = "Running"}) = 1
    /\ state[cur] = "Running"
    /\ \A i \in 1..(Len(chain) - 1) : state[chain[i]] = "Normal"
    /\ \A t \in ThreadIds :
          (\A i \in 1..Len(chain) : chain[i] # t) =>
              state[t] \in {"Absent", "Suspended", "Dead"}
    /\ \A i, j \in 1..Len(chain) : chain[i] = chain[j] => i = j

\* a coroutine resumed by a coroutine is executing, the main thread and its
\* resumer are Normal
C4_Witness ==
    /\ Len(chain) = 3
    /\ state[chain[1]] = "Normal" /\ state[chain[2]] = "Normal"
    /\ state[chain[3]] = "Running"

\* C5: status of the executing thread itself is "running", and status of a
\* Normal thread is "running" too.
C5_StatusOfRunningAndNormal ==
    /\ (last.op = "status" /\ last.thread = last.caller) =>
            ret = Return(<<String(RunningStr)>>)
    /\ (last.op = "status" /\ last.mode = "Normal") =>
            ret = Return(<<String(RunningStr)>>)

\* inside a nested coroutine, status was asked of the coroutine that resumed it
C5_Witness ==
    /\ last.op = "status" /\ last.mode = "Normal"
    /\ last.depth = 3 /\ last.thread = chain[2]
    /\ ret = Return(<<String(RunningStr)>>)

\* C6: yield from the main thread, outside any resume, fails and changes
\* nothing; yield from a resumed thread hands exactly its arguments to the
\* resumer.
C6_YieldOutsideResumeFails ==
    /\ (last.op = "yield" /\ last.depth = 1) =>
            /\ ret.kind = "Err"
            /\ chain = <<MainThread>>
            /\ state[MainThread] = "Running"
    /\ (last.op = "yield" /\ last.depth > 1) =>
            /\ ret.kind = "Return"
            /\ SubSeq(ret.vals, 2, Len(ret.vals)) = last.vals
            /\ Len(chain) = last.depth - 1
            /\ state[cur] = "Running"

\* the main thread called yield with arguments
C6_Witness ==
    /\ last.op = "yield" /\ last.depth = 1 /\ last.vals # <<>>
    /\ ret.kind = "Err"

\* the argument of create / resume / status is missing or of the wrong type
BadArgument(op, args) ==
    \/ op = "create" /\ Arg0(args).tag # "Function"
    \/ op \in {"resume", "status"} /\ Arg0(args).tag # "Thread"
    \/ op = "len" /\ Arg0(args).tag \notin {"Integer", "String"}

ExpectedType(op) ==
    CASE op = "create" -> "function"
      [] op \in {"resume", "status"} -> "thread"
      [] OTHER -> "string"

\* C10: every library callback (create, resume, status, len) given a missing
\* argument or one of the wrong type fails with a TypeError carrying the
\* expected and the found type name.
C10_Original ==
    (last.op \in {"create", "resume", "status", "len"}
        /\ BadArgument(last.op, last.vals)) =>
            /\ ret.kind = "Err"
            /\ ret.err.kind = "TypeError"
            /\ ret.err.expected = ExpectedType(last.op)
            /\ ret.err.found = type_name(Arg0(last.vals))

\* C10, what the code does: coroutine.create, coroutine.resume and
\* coroutine.status given a bad argument fail with a TypeError carrying the
\* expected type name and the found one ("nil" when missing); string.len
\* fails with the RuntimeError "Bad argument to len"; none of them creates a
\* thread or changes a thread's state.
C10_BadArgumentFails ==
    [][(last'.op \in {"create", "resume", "status", "len"}
            /\ BadArgument(last'.op, last'.vals)) =>
          /\ state' = state
          /\ chain' = chain
          /\ ret'.kind = "Err"
          /\ IF last'.op = "len"
             THEN ret'.err = RuntimeError(BadArgumentToLen)
             ELSE ret'.err = TypeError(ExpectedType(last'.op),
                                       type_name(Arg0(last'.vals)))
          /\ (last'.vals = <<>> /\ last'.op # "len") => ret'.err.found = "nil"]_vars

\* string.len was called without a string and failed
C10_Witness ==
    /\ last.op = "len" /\ BadArgument("len", last.vals)
    /\ ret.kind = "Err"


\* ------------------------------------------------------------------ Integer arithmetic
MinInteger == -(2 ^ (IntBits - 1))
MaxInteger == (2 ^ (IntBits - 1)) - 1
Integers == MinInteger..MaxInteger

\* two's-complement wraparound to the Integer width
Wrap(x) == ((x - MinInteger) % (2 ^ IntBits)) + MinInteger

Abs(x) == IF x < 0 THEN -x ELSE x

\* Rust's / on integers: the quotient truncated toward zero
TruncDiv(a, b) ==
    IF (a < 0) = (b < 0) THEN Abs(a) \div Abs(b) ELSE -(Abs(a) \div Abs(b))

\* Rust's % on integers: the remainder, with the sign of the dividend
TruncRem(a, b) == a - (b * TruncDiv(a, b))

\* i64::wrapping_div
wrapping_div(a, b) == Wrap(TruncDiv(a, b))

None == [kind |-> "None", v |-> 0]
Some(v) == [kind |-> "Some", v |-> v]
Panic == [kind |-> "Panic", v |-> 0]
Idle == [kind |-> "Idle", v |-> 0]

\* Value::floor_divide on two Integers
floor_divide(a, b) == IF b = 0 THEN None ELSE Some(wrapping_div(a, b))

\* Value::modulo on two Integers: the outcomes the build can produce.
\* MinInteger % -1 panics in every build; an overflowing (a % b) + b panics
\* where overflow checks are compiled in and wraps where they are not.
modulo(a, b) ==
    IF b = 0 THEN {None}
    ELSE IF a = MinInteger /\ b = -1 THEN {Panic}
    ELSE LET sum == TruncRem(a, b) + b IN
         IF sum \in Integers THEN {Some(TruncRem(sum, b))}
         ELSE {Panic, Some(TruncRem(Wrap(sum), b))}

InitArith ==
    /\ InitCo /\ IdleCb
    /\ opA \in Integers /\ opB \in Integers
    /\ opName = "none" /\ opRes = Idle

\* floor_divide is applied to the operands
FloorDivideStep ==
    /\ opName = "none"
    /\ opName' = "floor_divide"
    /\ opRes' = floor_divide(opA, opB)
    /\ UNCHANGED <<opA, opB, coVars, cbVars>>

\* modulo is applied to the operands
ModuloStep ==
    /\ opName = "none"
    /\ opName' = "modulo"
    /\ opRes' \in modulo(opA, opB)
    /\ UNCHANGED <<opA, opB, coVars, cbVars>>

NextArith ==
    \/ FloorDivideStep
    \/ ModuloStep

SpecArith == InitArith /\ [][NextArith]_vars

\* floor(a / b), where q is the floor iff a lies between q*b and (q+1)*b
IsFloor(q, a, b) ==
    IF b > 0 THEN q * b <= a /\ a < (q + 1) * b
    ELSE q * b >= a /\ a > (q + 1) * b

\* C7: floor_divide of Integers a and b is the Integer floor(a / b) when b is
\* not 0 (and floor(a / b) is an Integer of the width), and no value when b = 0.
C7_FloorDivideRoundsDown ==
    opName = "floor_divide" =>
        IF opB = 0 THEN opRes = None
        ELSE (\E q \in Integers : IsFloor(q, opA, opB)) =>
                (opRes.kind = "Some" /\ IsFloor(opRes.v, opA, opB))

\* C8: modulo of Integers a and b, b not 0, is an Integer r that is 0 or has
\* the sign of b, with |r| < |b| and r congruent to a modulo b, for every a
\* and b of the width and without an overflow trap; modulo(a, 0) is no value.
C8_ModuloHasSignOfDivisor ==
    opName = "modulo" =>
        IF opB = 0 THEN opRes = None
        ELSE /\ opRes.kind = "Some"
             /\ opRes.v = 0 \/ ((opRes.v < 0) = (opB < 0))
             /\ Abs(opRes.v) < Abs(opB)
             /\ TruncRem(opA - opRes.v, opB) = 0

\* ------------------------------------------------------------------ tests/callback.rs
CallVals == {Nil, Integer(1), Integer(2), String(<<"a">>)}
CallArgLists == SeqsUpTo(CallVals, MaxVals)

TestCallbackNoPush(args) == args

\* the native callback of the test: its arguments, with Integer 42 pushed
TestCallback(args) == Append(args, Integer(42))

\* local a, b, c = f(...): the first n results, nil for the missing ones
Adjust(results, n) == [i \in 1..n |-> IF i <= Len(results) THEN results[i] ELSE Nil]

InitCallback ==
    /\ InitCo /\ IdleAr
    /\ pc = "start" /\ cbArgs \in CallArgLists /\ globals = {}
    /\ closure = "none" /\ locals = <<>> /\ runResult = <<>> /\ outcome = "none"

\* sequence_fn: the callback is made and set as the global `callback`
SetGlobal ==
    /\ pc = "start"
    /\ globals' = globals \cup {"callback"}
    /\ pc' = "compile"
    /\ UNCHANGED <<cbArgs, closure, locals, runResult, outcome, coVars, arVars>>

\* and_then: the script is compiled into a closure over the globals
Compile ==
    /\ pc = "compile"
    /\ closure' = "compiled"
    /\ pc' = "run"
    /\ UNCHANGED <<cbArgs, globals, locals, runResult, outcome, coVars, arVars>>

\* and_then: main_thread.run_function(closure): the script calls the callback
\* with cbArgs, binds one local more than it passed and compares them with
\* the values it expects
RunFunction ==
    /\ pc = "run"
    /\ closure = "compiled"
    /\ "callback" \in globals
    /\ LET n == Len(cbArgs) + 1
           bound == Adjust(TestCallback(cbArgs), n)
           expected == cbArgs \o <<Integer(42)>>
       IN /\ locals' = bound
          /\ runResult' = <<Boolean(\A i \in 1..n : ValueEq(bound[i], expected[i]))>>
    /\ pc' = "map"
    /\ UNCHANGED <<cbArgs, globals, closure, outcome, coVars, arVars>>

\* map: assert_eq!(b, vec![Value::Boolean(true)])
MapAssert ==
    /\ pc = "map"
    /\ outcome' = IF runResult = <<True>> THEN "ok" ELSE "assert_failed"
    /\ pc' = "done"
    /\ UNCHANGED <<cbArgs, globals, closure, locals, runResult, coVars, arVars>>

NextCallback ==
    \/ SetGlobal
    \/ Compile
    \/ RunFunction
    \/ MapAssert

SpecCallback == InitCallback /\ [][NextCallback]_vars

====
